---- MODULE Spec2Model ----
(***************************************************************************)
(* Plan-execute routing engine of cos-agent.                               *)
(*                                                                         *)
(* The AgentState dictionary threaded through the LangGraph nodes is the   *)
(* record `state`; the node functions of AgentNodes are operators from a   *)
(* state record (and the outcome of the external call they make) to the    *)
(* state record they return.  Three ways of driving the nodes are          *)
(* modelled: the AgentGraph workflow (mode "agent"), the LangGraph Studio  *)
(* workflow (mode "studio", with the state of one turn fed back as the     *)
(* next turn's input) and direct invocation of the node functions on a     *)
(* state (mode "direct").                                                  *)
(*                                                                         *)
(* The remote-capability side is modelled next to it: one MCPClient and    *)
(* the calls made on it (ClientSpec), and the MultiMCPManager with its     *)
(* lifecycle coroutines, called one after the other (ManagerSpec) or       *)
(* started together and interleaved at their awaits (ConcurrentSpec).      *)
(***************************************************************************)
EXTENDS Integers, Sequences, FiniteSets, TLC

VARIABLES
    mode,        \* "agent" | "studio" | "direct": who drives the nodes
    mcp_client,  \* AgentNodes.mcp_client is set (truthy)
    node,        \* the graph node to run next
    state,       \* the AgentState dictionary
    last,        \* what the most recent node invocation did
    turn,        \* turns started (studio) / node calls made (direct)
    result,      \* what AgentGraph.run returned
    routed,      \* what the most recent direct call of a router returned
    client,      \* the fields of one MCPClient
    reply,       \* what the most recent call on that MCPClient returned
    manager,     \* the fields of the MultiMCPManager and the clients it made
    tasks        \* the coroutines running the manager's operations

vars ==
    <<mode, mcp_client, node, state, last, turn, result, routed, client, reply,
      manager, tasks>>

\* The variables of the workflows, and those of the remote-capability side.
workflowvars == <<mcp_client, node, state, last, turn, result, routed>>

clientvars == <<client, reply>>

managervars == <<manager, tasks>>

mcpvars == <<client, reply, manager, tasks>>

----------------------------------------------------------------------------
(* Bounds *)

MaxPlanLen == 2       \* longest plan the model's response is taken to hold
MaxIterations == 2    \* largest max_iterations a caller passes
MaxTurns == 2         \* turns of one studio conversation
MaxCalls == 3         \* node invocations in direct mode
MaxMessages == 6      \* messages of a state handed to a router
MaxSessions == 3      \* HTTP sessions one MCPClient opens
MaxClients == 3       \* MCPClient objects one MultiMCPManager creates
MaxTasks == 2         \* manager operations in flight at a time

----------------------------------------------------------------------------
(* Values *)

None == "None"
Missing == -1         \* context.get(key) of an absent integer key
MaxIterationsAnswer == "Maximum iterations reached. Task incomplete."

Falsy(x) == x = None \/ x = ""

Min(a, b) == IF a <= b THEN a ELSE b

Last(seq) == seq[Len(seq)]

IsPrefix(a, b) == Len(a) <= Len(b) /\ SubSeq(b, 1, Len(a)) = a

SeqsUpTo(S, n) == UNION {[1..k -> S] : k \in 0..n}

----------------------------------------------------------------------------
(* Plans *)

\* A plan step as json.loads returns it.  is_dict: the entry is an object;
\* has_step: it has the key "step"; mcp: "mcp_tools" is in tools_needed.
Step(a, m, h, d) == [action |-> a, mcp |-> m, has_step |-> h, is_dict |-> d]

HandlerActions == {"research", "analyze", "validate", "code_gen"}

StepShapes ==
    {Step(a, FALSE, h, TRUE) : a \in HandlerActions, h \in BOOLEAN}
    \cup {Step("execute", TRUE, h, TRUE) : h \in BOOLEAN}
    \cup {Step("execute", FALSE, TRUE, TRUE),
          Step("complete", FALSE, TRUE, TRUE),
          Step("other", FALSE, TRUE, TRUE),
          Step("summarize", FALSE, TRUE, TRUE),
          Step("", FALSE, TRUE, TRUE),
          Step("", FALSE, FALSE, FALSE)}

\* A step of the model's response that execution_node has not read yet: what
\* it holds is drawn from StepShapes when it is first read (reveal).
Unread == Step("unread", FALSE, FALSE, FALSE)

NoPlan == [set |-> FALSE, steps |-> <<>>, which |-> "none"]

FallbackPlan ==
    [set |-> TRUE, which |-> "fallback",
     steps |-> <<Step("research", FALSE, TRUE, TRUE),
                 Step("analyze", FALSE, TRUE, TRUE),
                 Step("execute", TRUE, TRUE, TRUE),
                 Step("validate", FALSE, TRUE, TRUE)>>]

ErrorPlan ==
    [set |-> TRUE, which |-> "error",
     steps |-> <<Step("complete", FALSE, TRUE, TRUE)>>]

ParsedPlan(steps) == [set |-> TRUE, which |-> "parsed", steps |-> steps]

\* What the planning model call does: the prompt template lookup raises,
\* the call raises, or it returns content that is not JSON, JSON of which
\* plan['steps'] cannot be taken or measured, or JSON holding sized steps.
BadShapes == {"json_not_object", "json_no_steps", "json_steps_unsized"}

Response(k, steps) == [kind |-> k, steps |-> steps]

PlannerResponses ==
    {Response(k, <<>>) : k \in {"prompt_raise", "raise", "not_json"} \cup BadShapes}
    \cup {Response("json_plan", p) : p \in SeqsUpTo({Unread}, MaxPlanLen)}

----------------------------------------------------------------------------
(* AgentState *)

EmptyContext ==
    [execution_plan |-> NoPlan,
     current_step |-> Missing,
     next_action |-> "missing",
     mcp_results |-> <<>>,
     validation_results |-> [set |-> FALSE, items |-> <<>>],
     generated_code |-> [kind |-> "unset", items |-> <<>>],
     validation_status |-> FALSE,
     conversation_ready |-> FALSE]

\* ext counts the calls made on the capability clients (self.llm, self.tools)
\* and the invocations of execution_node since the plan was installed; it
\* tells whether execution_node caught an exception (raised) and whether an
\* exception left a node function (escaped).
NoCalls ==
    [llm |-> 0, tools |-> 0, exec |-> 0, dispatched |-> <<>>, raised |-> FALSE,
     escaped |-> FALSE]

InitialState(msgs, task, history, maxit) ==
    [messages |-> msgs,
     current_task |-> task,
     task_history |-> history,
     research_results |-> <<>>,
     analysis_results |-> {},
     final_answer |-> None,
     tools_used |-> <<>>,
     iteration_count |-> 0,
     max_iterations |-> maxit,
     error_log |-> <<>>,
     context |-> EmptyContext,
     ext |-> NoCalls]

CurrentStep(context) ==
    IF context.current_step = Missing THEN 0 ELSE context.current_step

Steps(context) == context.execution_plan.steps

----------------------------------------------------------------------------
(* planning_node *)

\* Lines 80-87: a falsy current_task is taken from the latest human message.
extract_current_task(s) ==
    IF s.current_task = "" /\ \E i \in 1..Len(s.messages) : s.messages[i] = "human"
    THEN [s EXCEPT !.current_task = "task", !.task_history = Append(@, "task")]
    ELSE s

\* planning_error leaving the cursor where it was.
planning_error_keeps_cursor(s) ==
    [s EXCEPT !.error_log = Append(@, "Planning node error"),
              !.context.execution_plan = ErrorPlan,
              !.ext.exec = 0,
              !.ext.dispatched = <<>>,
              !.ext.raised = FALSE]

\* Lines 142-154: the except branch of planning_node.
planning_error(s) ==
    [s EXCEPT !.error_log = Append(@, "Planning node error"),
              !.context.execution_plan = ErrorPlan,
              !.context.current_step = 0,
              !.ext.exec = 0,
              !.ext.dispatched = <<>>,
              !.ext.raised = FALSE]

\* Lines 130-134: the plan is stored, the cursor reset, the iteration counted.
install_plan(s, plan) ==
    [s EXCEPT !.context.execution_plan = plan,
              !.context.current_step = 0,
              !.iteration_count = @ + 1,
              !.ext.exec = 0,
              !.ext.dispatched = <<>>,
              !.ext.raised = FALSE]

\* planning_shortcut starting the plan over.
planning_shortcut_resets_cursor(s) ==
    [s EXCEPT !.final_answer = MaxIterationsAnswer,
              !.context.current_step = 0]

\* Lines 89-92: the iteration budget is used up.
planning_shortcut(s) ==
    [s EXCEPT !.final_answer = MaxIterationsAnswer]

\* planning_node planning once more when the count has reached the maximum.
planning_node_plans_at_maximum(s, resp) ==
    LET s0 == extract_current_task(s) IN
    IF s0.iteration_count > s0.max_iterations THEN planning_shortcut(s0)
    ELSE IF resp.kind = "prompt_raise" THEN planning_error(s0)
    ELSE LET s1 == [s0 EXCEPT !.ext.llm = @ + 1] IN
         IF resp.kind = "raise" THEN planning_error(s1)
         ELSE IF resp.kind = "not_json"
              THEN [install_plan(s1, FallbackPlan) EXCEPT !.messages = Append(@, "ai_plan")]
         ELSE IF resp.kind \in BadShapes
              THEN planning_error(install_plan(s1, NoPlan))
         ELSE [install_plan(s1, ParsedPlan(resp.steps)) EXCEPT !.messages = Append(@, "ai_plan")]

planning_node(s, resp) ==
    LET s0 == extract_current_task(s) IN
    IF s0.iteration_count >= s0.max_iterations THEN planning_shortcut(s0)
    ELSE IF resp.kind = "prompt_raise" THEN planning_error(s0)
    ELSE LET s1 == [s0 EXCEPT !.ext.llm = @ + 1] IN
         IF resp.kind = "raise" THEN planning_error(s1)
         ELSE IF resp.kind = "not_json"
              THEN [install_plan(s1, FallbackPlan) EXCEPT !.messages = Append(@, "ai_plan")]
         ELSE IF resp.kind \in BadShapes
              THEN planning_error(install_plan(s1, NoPlan))
         ELSE [install_plan(s1, ParsedPlan(resp.steps)) EXCEPT !.messages = Append(@, "ai_plan")]

\* The branch planning_node takes.
planning_outcome(s, resp) ==
    IF s.iteration_count >= s.max_iterations THEN "shortcut"
    ELSE IF resp.kind = "prompt_raise" THEN "prompt_raised"
    ELSE IF resp.kind = "raise" THEN "llm_raised"
    ELSE IF resp.kind = "not_json" THEN "fallback"
    ELSE IF resp.kind \in BadShapes THEN "bad_shape"
    ELSE "parsed"

----------------------------------------------------------------------------
(* The step handlers of execution_node.  Each takes the state, the step, its
   number n (step["step"], the position in the plan) and whether the tool it
   calls returns success; it gives the state it leaves and whether it raised. *)

Returned(s) == [s |-> s, raised |-> FALSE]
Raised(s) == [s |-> s, raised |-> TRUE]

ToolCalled(s) == [s EXCEPT !.ext.tools = @ + 1]

execute_research_step(s, step, n, ok) ==
    LET s1 == ToolCalled(s) IN
    IF ~ok THEN Returned(s1)
    ELSE IF ~step.has_step THEN Raised(s1)
    ELSE Returned([s1 EXCEPT
             !.research_results = Append(@, [by |-> "step", step |-> n]),
             !.tools_used = Append(@, "web_search")])

\* execute_analysis_step analysing whatever research_results holds.
execute_analysis_step_unguarded(s, step, n, ok) ==
    IF ~step.has_step THEN Raised(s)
    ELSE LET s1 == ToolCalled(s) IN
         IF ~ok THEN Returned(s1)
         ELSE Returned([s1 EXCEPT
                  !.analysis_results =
                      {e \in @ : e.key # n}
                      \cup {[key |-> n, data |-> Len(s.research_results)]},
                  !.tools_used = Append(@, "analyze_data")])

execute_analysis_step(s, step, n, ok) ==
    IF s.research_results = <<>> THEN Returned(s)
    ELSE IF ~step.has_step THEN Raised(s)
    ELSE LET s1 == ToolCalled(s) IN
         IF ~ok THEN Returned(s1)
         ELSE Returned([s1 EXCEPT
                  !.analysis_results =
                      {e \in @ : e.key # n}
                      \cup {[key |-> n, data |-> Len(s.research_results)]},
                  !.tools_used = Append(@, "analyze_data")])

\* execute_mcp_step recording a result without a client.
execute_mcp_step_records_anyway(s, step, n, ok) ==
    IF ~step.has_step
    THEN Returned([s EXCEPT !.error_log = Append(@, "MCP execution error")])
    ELSE Returned([s EXCEPT !.context.mcp_results = Append(@, n),
                            !.tools_used = Append(@, "mcp_tools")])

execute_mcp_step(s, step, n, ok) ==
    IF mcp_client
    THEN IF ~step.has_step
         THEN Returned([s EXCEPT !.error_log = Append(@, "MCP execution error")])
         ELSE Returned([s EXCEPT !.context.mcp_results = Append(@, n),
                                 !.tools_used = Append(@, "mcp_tools")])
    ELSE Returned([s EXCEPT !.error_log = Append(@, "MCP client not available")])

execute_validation_step(s, step, n, ok) ==
    LET s1 == ToolCalled(s) IN
    IF ~ok THEN Returned(s1)
    ELSE LET s2 == [s1 EXCEPT !.context.validation_results.set = TRUE] IN
         IF ~step.has_step THEN Raised(s2)
         ELSE Returned([s2 EXCEPT
                  !.context.validation_results.items = Append(@, n),
                  !.tools_used = Append(@, "validate_input")])

execute_code_generation_step(s, step, n, ok) ==
    LET s1 == ToolCalled(s) IN
    IF ~ok THEN Returned(s1)
    ELSE IF s1.context.generated_code.kind = "dict" THEN Raised(s1)
    ELSE LET s2 == [s1 EXCEPT !.context.generated_code.kind = "list"] IN
         IF ~step.has_step THEN Raised(s2)
         ELSE Returned([s2 EXCEPT
                  !.context.generated_code.items = Append(@, n),
                  !.tools_used = Append(@, "generate_code")])

execute_generic_step(s, step, n, ok) ==
    Returned([s EXCEPT !.messages = Append(@, "ai_generic")])

\* handler_of leaving validate steps to the generic handler.
handler_of_without_validate(step) ==
    IF step.action = "research" THEN "research"
    ELSE IF step.action = "analyze" THEN "analysis"
    ELSE IF step.action = "execute" /\ step.mcp THEN "mcp"
    ELSE IF step.action = "code_gen" THEN "code_generation"
    ELSE "generic"

\* Lines 178-191: the handler chosen for a step.
handler_of(step) ==
    IF step.action = "research" THEN "research"
    ELSE IF step.action = "analyze" THEN "analysis"
    ELSE IF step.action = "execute" /\ step.mcp THEN "mcp"
    ELSE IF step.action = "validate" THEN "validation"
    ELSE IF step.action = "code_gen" THEN "code_generation"
    ELSE "generic"

dispatch(s, step, n, ok) ==
    LET h == handler_of(step) IN
    IF h = "research" THEN execute_research_step(s, step, n, ok)
    ELSE IF h = "analysis" THEN execute_analysis_step(s, step, n, ok)
    ELSE IF h = "mcp" THEN execute_mcp_step(s, step, n, ok)
    ELSE IF h = "validation" THEN execute_validation_step(s, step, n, ok)
    ELSE IF h = "code_generation" THEN execute_code_generation_step(s, step, n, ok)
    ELSE execute_generic_step(s, step, n, ok)

----------------------------------------------------------------------------
(* execution_node *)

\* execution_error raising the exception again after logging it.
execution_error_reraises(s) ==
    [s EXCEPT !.error_log = Append(@, "Execution node error"),
              !.context.next_action = "complete",
              !.ext.raised = TRUE,
              !.ext.escaped = TRUE]

\* Lines 204-208: the except branch of execution_node.
execution_error(s) ==
    [s EXCEPT !.error_log = Append(@, "Execution node error"),
              !.context.next_action = "complete",
              !.ext.raised = TRUE]

\* advance moving the cursor two steps on.
advance_by_two(s, idx) ==
    [s EXCEPT !.context.current_step = idx + 2,
              !.context.next_action =
                  IF idx + 2 >= Len(Steps(s.context)) THEN "complete" ELSE "execute"]

\* Lines 193-200: the cursor moves on and the signal is set.
advance(s, idx) ==
    [s EXCEPT !.context.current_step = idx + 1,
              !.context.next_action =
                  IF idx + 1 >= Len(Steps(s.context)) THEN "complete" ELSE "execute"]

\* The step under the cursor, when unread, is the shape the response held.
reveal(s, shape) ==
    LET idx == CurrentStep(s.context) IN
    IF idx < Len(Steps(s.context)) /\ Steps(s.context)[idx + 1] = Unread
    THEN [s EXCEPT !.context.execution_plan.steps[idx + 1] = shape]
    ELSE s

\* The shapes the step under the cursor can turn out to have.
Readable(s) ==
    LET idx == CurrentStep(s.context) IN
    IF idx < Len(Steps(s.context)) /\ Steps(s.context)[idx + 1] = Unread
    THEN StepShapes
    ELSE {Unread}

\* execution_done logging that nothing is left to do.
execution_done_appends_message(s) ==
    [s EXCEPT !.context.next_action = "complete",
              !.messages = Append(@, "ai_exec")]

\* Lines 164-167: no step is left.
execution_done(s) ==
    [s EXCEPT !.context.next_action = "complete"]

\* execution_node leaving the signal as it found it when no step is left.
execution_node_leaves_signal(s, ok) ==
    LET idx == CurrentStep(s.context)
        steps == Steps(s.context)
        s0 == [s EXCEPT !.ext.exec = @ + 1]
    IN  IF idx >= Len(steps)
        THEN s0
        ELSE LET step == steps[idx + 1] IN
             IF ~step.is_dict THEN execution_error(s0)
             ELSE LET s1 == [s0 EXCEPT !.messages = Append(@, "ai_exec"),
                                       !.ext.dispatched = Append(@, idx + 1)]
                      h == dispatch(s1, step, idx + 1, ok)
                  IN  IF h.raised THEN execution_error(h.s)
                      ELSE advance(h.s, idx)

execution_node(s, ok) ==
    LET idx == CurrentStep(s.context)
        steps == Steps(s.context)
        s0 == [s EXCEPT !.ext.exec = @ + 1]
    IN  IF idx >= Len(steps)
        THEN execution_done(s0)
        ELSE LET step == steps[idx + 1] IN
             IF ~step.is_dict THEN execution_error(s0)
             ELSE LET s1 == [s0 EXCEPT !.messages = Append(@, "ai_exec"),
                                       !.ext.dispatched = Append(@, idx + 1)]
                      h == dispatch(s1, step, idx + 1, ok)
                  IN  IF h.raised THEN execution_error(h.s)
                      ELSE advance(h.s, idx)

\* The branch execution_node takes and the handler it dispatches.
execution_outcome(s, ok) ==
    LET idx == CurrentStep(s.context)
        steps == Steps(s.context)
    IN  IF idx >= Len(steps) THEN [branch |-> "done", handler |-> "none"]
        ELSE IF ~steps[idx + 1].is_dict THEN [branch |-> "raised", handler |-> "none"]
        ELSE [branch |-> IF dispatch(s, steps[idx + 1], idx + 1, ok).raised
                         THEN "raised" ELSE "advanced",
              handler |-> handler_of(steps[idx + 1])]

----------------------------------------------------------------------------
(* The action nodes.  ok: the tool the node calls returns success. *)

\* What the model call of research_node does.
ResearchResponses == {"raise", "text"}

\* research_node keeping the latest result only.
research_node_keeps_latest(s, ok, resp) ==
    LET s1 == ToolCalled(s) IN
    IF ~ok THEN [s1 EXCEPT !.error_log = Append(@, "Research failed")]
    ELSE [s1 EXCEPT !.ext.llm = @ + 1,
                    !.research_results =
                        <<[by |-> IF resp = "raise" THEN "node_fallback" ELSE "node",
                           step |-> 0]>>,
                    !.tools_used = Append(@, "web_search"),
                    !.messages = Append(@, "ai_research")]

research_node(s, ok, resp) ==
    LET s1 == ToolCalled(s) IN
    IF ~ok THEN [s1 EXCEPT !.error_log = Append(@, "Research failed")]
    ELSE [s1 EXCEPT !.ext.llm = @ + 1,
                    !.research_results =
                        Append(@, [by |-> IF resp = "raise" THEN "node_fallback" ELSE "node",
                                   step |-> 0]),
                    !.tools_used = Append(@, "web_search"),
                    !.messages = Append(@, "ai_research")]

analysis_node(s, ok) ==
    IF s.research_results = <<>> THEN s
    ELSE LET s1 == ToolCalled(s) IN
         IF ~ok THEN [s1 EXCEPT !.error_log = Append(@, "Analysis failed")]
         ELSE [s1 EXCEPT !.analysis_results = {[key |-> 0, data |-> Len(s.research_results)]},
                         !.tools_used = Append(@, "analyze_data"),
                         !.messages = Append(@, "dict")]

code_generation_node(s, ok) ==
    LET s1 == ToolCalled(s) IN
    IF ~ok THEN [s1 EXCEPT !.error_log = Append(@, "Code generation failed")]
    ELSE [s1 EXCEPT !.context.generated_code = [kind |-> "dict", items |-> <<>>],
                    !.tools_used = Append(@, "generate_code"),
                    !.messages = Append(@, "dict")]

validation_node(s, ok) ==
    LET s1 == ToolCalled(s) IN
    IF ~ok THEN [s1 EXCEPT !.error_log = Append(@, "Validation failed")]
    ELSE [s1 EXCEPT !.context.validation_status = TRUE,
                    !.tools_used = Append(@, "validate_input"),
                    !.messages = Append(@, "dict")]

summarization_node(s, ok) ==
    LET s1 == ToolCalled(s) IN
    IF ~ok THEN [s1 EXCEPT !.error_log = Append(@, "Summarization failed"),
                           !.final_answer = "Failed to generate summary"]
    ELSE [s1 EXCEPT !.final_answer = "summary",
                    !.tools_used = Append(@, "summarize_content"),
                    !.messages = Append(@, "dict")]

----------------------------------------------------------------------------
(* conversational_node and completion_node *)

\* What the conversational model call does: it raises, or returns content
\* that is empty or not.
ConversationResponses == {"raise", "empty", "text"}

conversational_node(s, resp) ==
    LET s1 == [s EXCEPT !.ext.llm = @ + 1] IN
    IF resp = "raise"
    THEN [s1 EXCEPT !.error_log = Append(@, "Conversational node error"),
                    !.messages = Append(@, "ai_conv_error"),
                    !.final_answer = "I encountered an error while processing your request"]
    ELSE [s1 EXCEPT !.messages = Append(@, "ai_conv"),
                    !.final_answer = IF resp = "empty" THEN "" ELSE "response",
                    !.context.conversation_ready = TRUE,
                    !.tools_used = Append(@, "conversational_response")]

\* synthesize_final_answer writing the summary over an answer already set.
synthesize_final_answer_overwrites(s) ==
    [s EXCEPT !.final_answer = "Task completed"]

\* Lines 617-632: a summary is made of the counts when no answer is set.
synthesize_final_answer(s) ==
    IF Falsy(s.final_answer) THEN [s EXCEPT !.final_answer = "Task completed"] ELSE s

\* completion_node not looking at conversation_ready.
completion_node_ignores_ready(s) ==
    synthesize_final_answer(s)

completion_node(s) ==
    IF s.context.conversation_ready THEN s
    ELSE synthesize_final_answer(s)

----------------------------------------------------------------------------
(* Routers *)

\* Lookup indexing the table, table[key], so that an absent key raises.
LookupByIndex(table, key, default) ==
    IF key \in DOMAIN table THEN table[key] ELSE "KeyError"

\* dict.get(key, default).
Lookup(table, key, default) ==
    IF key \in DOMAIN table THEN table[key] ELSE default

\* agent_graph.py, _route_after_execution.
AgentActionMapping ==
    [research |-> "research", analyze |-> "analysis", code_gen |-> "code_generation",
     validate |-> "validation", summarize |-> "summarization",
     execute |-> "execution", complete |-> "completion"]

agent_route_after_execution(s) ==
    Lookup(AgentActionMapping,
           IF s.context.next_action = "missing" THEN "complete" ELSE s.context.next_action,
           "completion")

\* agent_graph.py, the path map of the execution node's conditional edges.
AgentPathMap ==
    [execute |-> "execution", research |-> "research", analyze |-> "analysis",
     code_gen |-> "code_generation", validate |-> "validation",
     summarize |-> "summarization", complete |-> "completion"]

\* studio_app.py, route_after_execution.  f tells of the lowered content of
\* the latest message: whether it holds a conversational trigger, a complex
\* task indicator, and fewer than 15 words.
StudioActionMapping ==
    [research |-> "research", analyze |-> "analysis", code_gen |-> "code_generation",
     validate |-> "validation", summarize |-> "summarization",
     conversation |-> "conversation", complete |-> "completion"]

HasContent(kind) == kind # "dict"

\* Lines 58-99: the keyword heuristic sends the run to the conversation.
HeuristicFires(s, f) ==
    /\ s.messages # <<>>
    /\ HasContent(Last(s.messages))
    /\ \/ f.trigger /\ ~f.complex
       \/ f.short /\ f.trigger
       \/ Len(s.messages) > 2 /\ ~f.complex

\* studio_route_after_execution looking the signal up only.
studio_route_after_execution_table_only(s, f) ==
    Lookup(StudioActionMapping,
           IF s.context.next_action = "missing" THEN "complete"
           ELSE s.context.next_action,
           "conversation")

studio_route_after_execution(s, f) ==
    IF HeuristicFires(s, f) THEN "conversation"
    ELSE Lookup(StudioActionMapping,
                IF s.context.next_action = "missing" THEN "complete"
                ELSE s.context.next_action,
                "conversation")

StudioPathMap ==
    [research |-> "research", analysis |-> "analysis",
     code_generation |-> "code_generation", validation |-> "validation",
     summarization |-> "summarization", conversation |-> "conversation",
     completion |-> "completion"]

\* agent_route_to_next_step going back to execution at the end of the plan.
agent_route_to_next_step_inclusive(s) ==
    IF CurrentStep(s.context) <= Len(Steps(s.context)) THEN "execute" ELSE "complete"

\* agent_graph.py, _route_to_next_step, and the path map of the action
\* nodes' conditional edges.
agent_route_to_next_step(s) ==
    IF CurrentStep(s.context) < Len(Steps(s.context)) THEN "execute" ELSE "complete"

AgentNextStepPathMap == [execute |-> "execution", complete |-> "completion"]

\* studio_app.py, route_to_next_step, and the path map of the action nodes'
\* conditional edges.
studio_route_to_next_step(s) ==
    IF CurrentStep(s.context) < Len(Steps(s.context)) THEN "execution" ELSE "completion"

StudioNextStepPathMap == [execution |-> "execution", completion |-> "completion"]

\* What the content of a message of a kind can be.  The planner's message
\* starts "Execution plan created", which holds the indicator "create".
Features(kind) ==
    {f \in [trigger : BOOLEAN, complex : BOOLEAN, short : BOOLEAN] :
        kind = "ai_plan" => f.complex}

LatestFeatures(s) ==
    IF s.messages = <<>> THEN Features("none") ELSE Features(Last(s.messages))

\* A direct call of a router: which one, what the latest message's content
\* held, and the value returned.
NoFeatures == [trigger |-> FALSE, complex |-> FALSE, short |-> FALSE]

Routed(r, f, v) == [router |-> r, f |-> f, value |-> v]

NoRoute == Routed("none", NoFeatures, "none")

\* LangGraph follows a conditional edge by looking the router's value up in
\* the path map; a value that is no key of it raises KeyError.
follow(path_map, value) == Lookup(path_map, value, "KeyError")

----------------------------------------------------------------------------
(* AgentGraph.run *)

NoResult ==
    [outcome |-> "none", success |-> FALSE, final_answer |-> None, errors |-> <<>>]

\* Lines 150-160: the traversal ended; the record is built from the state.
run_succeeded(s) ==
    [outcome |-> "returned", success |-> TRUE,
     final_answer |-> s.final_answer, errors |-> s.error_log]

\* run_failed letting the exception through to the caller.
run_failed_propagates(e) ==
    [outcome |-> "raised", success |-> FALSE, final_answer |-> None, errors |-> <<>>]

\* Lines 162-174: an exception left the traversal.
run_failed(e) ==
    [outcome |-> "returned", success |-> FALSE,
     final_answer |-> "Workflow failed", errors |-> <<e>>]

\* What run returns once the traversal stops at n.
run(s, n) ==
    IF n \in {"KeyError", "Raised"} THEN run_failed(n)
    ELSE IF n = "END" THEN run_succeeded(s)
    ELSE NoResult

----------------------------------------------------------------------------
(* MCPClient.  The client is the record of its fields; opened counts the
   httpx.AsyncClient objects it has created, and a session is named by the
   count at which it was created. *)

NoSession == 0        \* self.session is None

\* The tools a server can announce.
ToolNames == {"search", "report"}

NewClient ==
    [session |-> NoSession, available_tools |-> {}, connected |-> FALSE,
     opened |-> 0]

\* How connect can end: the health request and the discovery succeed; the
\* health request fails and the session is closed; the health request
\* fails and closing the session fails too.
ConnectOutcomes == {"ok", "refused", "close_failed"}

\* found: the tools the discovery adds (none when the discovery fails,
\* which _discover_capabilities swallows).
connect(c, outcome, found) ==
    LET c1 == [c EXCEPT !.opened = @ + 1, !.session = c.opened + 1] IN
    IF outcome = "ok"
    THEN [c1 EXCEPT !.available_tools = @ \cup found, !.connected = TRUE]
    ELSE IF outcome = "refused"
    THEN [c1 EXCEPT !.session = NoSession]
    ELSE c1

connect_returns(outcome) ==
    IF outcome = "ok" THEN "True"
    ELSE IF outcome = "refused" THEN "ConnectionError"
    ELSE "Exception"

\* closed: aclose returns (it raises otherwise, and the exception leaves
\* disconnect before the fields are reset).
disconnect(c, closed) ==
    IF c.session = NoSession THEN [c EXCEPT !.connected = FALSE]
    ELSE IF closed THEN [c EXCEPT !.session = NoSession, !.connected = FALSE]
    ELSE c

disconnect_returns(c, closed) ==
    IF c.session # NoSession /\ ~closed THEN "Exception" ELSE "None"

\* How the request of call_tool can end.
CallOutcomes == {"success", "http_error", "error"}

\* The ToolResult of call_tool.  Without a session the request is an
\* attribute access on None, caught by the last except clause.
call_tool(c, tool, outcome) ==
    IF ~c.connected THEN "not_connected"
    ELSE IF tool \notin c.available_tools THEN "not_available"
    ELSE IF c.session = NoSession THEN "no_session"
    ELSE outcome

health_check(c, healthy) ==
    IF c.session # NoSession /\ healthy THEN "True" ELSE "False"

NoReply == [op |-> "none", value |-> "none"]

Reply(op, value) == [op |-> op, value |-> value]

\* An MCPClient nobody has called yet.
NoClient ==
    /\ client = NewClient
    /\ reply = NoReply

\* The workflow side as the calls on the remote-capability side leave it.
NoWorkflow ==
    /\ mcp_client = FALSE
    /\ node = "none"
    /\ state = InitialState(<<>>, "", <<>>, 0)
    /\ last = [node |-> "START", branch |-> "none", handler |-> "none", tool |-> "none"]
    /\ turn = 0
    /\ result = NoResult
    /\ routed = NoRoute

----------------------------------------------------------------------------
(* MultiMCPManager.  Its dictionaries are insertion-ordered: a dictionary is
   the sequence of its [key, value] entries.  The MCPClient objects the
   manager creates are kept in `clients`; the value of an mcp_clients or
   mcp_adapters entry and a coroutine's local variable `client` are
   positions in it, so that all three can hold the same object. *)

\* Two of the predefined servers.
ServerIds == {"edfx", "rpa"}

ConfigName(id) == IF id = "edfx" THEN "EDFX-MCP" ELSE "RPA-MCP"

Entry(k, v) == [key |-> k, value |-> v]

Keys(d) == {d[i].key : i \in 1..Len(d)}

Get(d, k) == d[CHOOSE i \in 1..Len(d) : d[i].key = k].value

\* d[k] = v: a new key goes to the end, a known key keeps its place.
Put(d, k, v) ==
    IF k \in Keys(d)
    THEN [i \in 1..Len(d) |-> IF d[i].key = k THEN Entry(k, v) ELSE d[i]]
    ELSE Append(d, Entry(k, v))

Del(d, k) == SelectSeq(d, LAMBDA e : e.key # k)

Range(seq) == {seq[i] : i \in 1..Len(seq)}

\* list.remove: the first occurrence goes.
Remove(seq, x) ==
    LET i == CHOOSE j \in 1..Len(seq) :
                 seq[j] = x /\ \A k \in 1..(j - 1) : seq[k] # x
    IN  SubSeq(seq, 1, i - 1) \o SubSeq(seq, i + 1, Len(seq))

NewManager(configs) ==
    [server_configs |-> configs,
     mcp_clients |-> <<>>,
     mcp_adapters |-> <<>>,
     connected_servers |-> <<>>,
     clients |-> <<>>]

\* _load_server_configs: the predefined servers whose URL variable is set,
\* in the order of the predefined list.
LoadedConfigs ==
    {<<>>,
     <<Entry("edfx", ConfigName("edfx"))>>,
     <<Entry("rpa", ConfigName("rpa"))>>,
     <<Entry("edfx", ConfigName("edfx")), Entry("rpa", ConfigName("rpa"))>>}

add_server_config(m, id) ==
    [m EXCEPT !.server_configs = Put(@, id, ConfigName(id))]

remove_server_config(m, id) ==
    [m EXCEPT !.server_configs = Del(@, id),
              !.connected_servers = IF id \in Range(@) THEN Remove(@, id) ELSE @]

\* Lines 154-157 (checked) and 199-201 (unchecked): a connected client is
\* recorded.
store_client(m, id, c, checked) ==
    [m EXCEPT !.mcp_clients = Put(@, id, c),
              !.mcp_adapters = Put(@, id, c),
              !.connected_servers =
                  IF checked /\ id \in Range(@) THEN @ ELSE Append(@, id)]

\* Lines 175-180; a del of an absent key raises KeyError, which the except
\* clause of disconnect_server turns into False.
drop_client(m, id) ==
    IF id \notin Keys(m.mcp_clients)
    THEN [m |-> m, returned |-> "False"]
    ELSE IF id \notin Keys(m.mcp_adapters)
    THEN [m |-> [m EXCEPT !.mcp_clients = Del(@, id)], returned |-> "False"]
    ELSE [m |-> [m EXCEPT !.mcp_clients = Del(@, id),
                          !.mcp_adapters = Del(@, id),
                          !.connected_servers =
                              IF id \in Range(@) THEN Remove(@, id) ELSE @],
          returned |-> "True"]

\* Lines 224-226.
clear_all(m) ==
    [m EXCEPT !.mcp_clients = <<>>, !.mcp_adapters = <<>>,
              !.connected_servers = <<>>]

\* `if client.connected: await client.disconnect()` gives up control when
\* the client has a session to close.
Suspends(obj) == obj.connected /\ obj.session # NoSession

\* The loop of disconnect_all_servers from the entry after pos up to the
\* first client whose disconnect gives up control; pos is past the end when
\* there is none.
RECURSIVE sweep(_, _)
sweep(m, pos) ==
    IF pos >= Len(m.mcp_clients)
    THEN [m |-> m, pos |-> Len(m.mcp_clients) + 1]
    ELSE LET c == m.mcp_clients[pos + 1].value
             obj == m.clients[c]
         IN  IF Suspends(obj) THEN [m |-> m, pos |-> pos + 1]
             ELSE IF obj.connected
             THEN sweep([m EXCEPT !.clients[c] = disconnect(@, TRUE)], pos + 1)
             ELSE sweep(m, pos + 1)

\* execute_tool_on_server; reconnect: how the adapter's connect ends when
\* the client is not connected, outcome: how the request of call_tool ends.
execute_tool_on_server(m, id, tool, reconnect, outcome) ==
    IF id \notin Keys(m.mcp_adapters)
    THEN [m |-> m, returned |-> "not_connected"]
    ELSE LET c == Get(m.mcp_adapters, id)
             obj == m.clients[c]
             obj1 == IF obj.connected THEN obj ELSE connect(obj, reconnect, ToolNames)
             m1 == [m EXCEPT !.clients[c] = obj1]
         IN  IF ~obj1.connected THEN [m |-> m1, returned |-> "connect_failed"]
             ELSE IF id \notin Keys(m.server_configs)
             THEN [m |-> m1, returned |-> "missing_config"]
             ELSE [m |-> m1, returned |-> call_tool(obj1, tool, outcome)]

\* get_all_available_tools: a KeyError raised in the try block is caught,
\* and the except clause looks the configuration up again.
get_all_available_tools(m) ==
    IF \E id \in Keys(m.mcp_adapters) : id \notin Keys(m.server_configs)
    THEN "KeyError"
    ELSE "tools"

\* health_check_all_servers, likewise.
health_check_all_servers(m) ==
    IF \E id \in Keys(m.mcp_clients) : id \notin Keys(m.server_configs)
    THEN "KeyError"
    ELSE "status"

\* A coroutine: the operation it runs, where it is suspended, its locals
\* (server_id, client, the position and start size of its dictionary
\* iterator) and what it returned.
Tasks == 1..MaxTasks

MainTask == 1

Idle ==
    [op |-> "none", pc |-> "idle", server_id |-> "", client |-> 0, pos |-> 0,
     size |-> 0, returned |-> "none"]

Suspended(op, pc, id, c, pos, size) ==
    [op |-> op, pc |-> pc, server_id |-> id, client |-> c, pos |-> pos,
     size |-> size, returned |-> "none"]

Done(op, id, value) ==
    [op |-> op, pc |-> "done", server_id |-> id, client |-> 0, pos |-> 0,
     size |-> 0, returned |-> value]

\* A MultiMCPManager nobody has called yet.
NoManager ==
    /\ manager = NewManager(<<>>)
    /\ tasks = [t \in Tasks |-> Idle]

\* The remote-capability side as the workflows leave it.
NoMcp ==
    /\ NoClient
    /\ NoManager

----------------------------------------------------------------------------
(* The calls on one MCPClient *)

ClientInit ==
    /\ mode = "client"
    /\ NoClient
    /\ NoManager
    /\ NoWorkflow

Connect ==
    /\ mode = "client"
    /\ client.opened < MaxSessions
    /\ \E outcome \in ConnectOutcomes, found \in SUBSET ToolNames :
          /\ client' = connect(client, outcome, found)
          /\ reply' = Reply("connect", connect_returns(outcome))
    /\ UNCHANGED <<mode, workflowvars, managervars>>

Disconnect ==
    /\ mode = "client"
    /\ \E closed \in BOOLEAN :
          /\ client' = disconnect(client, closed)
          /\ reply' = Reply("disconnect", disconnect_returns(client, closed))
    /\ UNCHANGED <<mode, workflowvars, managervars>>

CallTool ==
    /\ mode = "client"
    /\ \E tool \in ToolNames, outcome \in CallOutcomes :
          reply' = Reply("call_tool", call_tool(client, tool, outcome))
    /\ UNCHANGED <<mode, client, workflowvars, managervars>>

HealthCheck ==
    /\ mode = "client"
    /\ \E healthy \in BOOLEAN :
          reply' = Reply("health_check", health_check(client, healthy))
    /\ UNCHANGED <<mode, client, workflowvars, managervars>>

ClientNext ==
    \/ Connect
    \/ Disconnect
    \/ CallTool
    \/ HealthCheck

ClientSpec == ClientInit /\ [][ClientNext]_vars

----------------------------------------------------------------------------
(* The operations of the MultiMCPManager *)

ManagerInit ==
    /\ mode = "manager"
    /\ manager \in {NewManager(configs) : configs \in LoadedConfigs}
    /\ tasks = [t \in Tasks |-> Idle]
    /\ NoClient
    /\ NoWorkflow

\* No coroutine is suspended in an operation.
AtRest == \A t \in Tasks : tasks[t].pc \in {"idle", "done"}

\* The configuration calls are synchronous; they are made between the
\* lifecycle operations.
AddServerConfig(id) ==
    /\ mode = "manager"
    /\ AtRest
    /\ manager' = add_server_config(manager, id)
    /\ UNCHANGED <<mode, tasks, workflowvars, clientvars>>

RemoveServerConfig(id) ==
    /\ mode = "manager"
    /\ AtRest
    /\ manager' = remove_server_config(manager, id)
    /\ UNCHANGED <<mode, tasks, workflowvars, clientvars>>

\* connect_server up to `await client.connect()`.
ConnectServer(t, id) ==
    /\ mode = "manager"
    /\ tasks[t].pc = "idle"
    /\ IF id \notin Keys(manager.server_configs)
       THEN /\ manager' = manager
            /\ tasks' = [tasks EXCEPT ![t] = Done("connect_server", id, "False")]
       ELSE /\ Len(manager.clients) < MaxClients
            /\ manager' = [manager EXCEPT !.clients = Append(@, NewClient)]
            /\ tasks' = [tasks EXCEPT ![t] =
                   Suspended("connect_server", "connect", id,
                             Len(manager.clients) + 1, 0, 0)]
    /\ UNCHANGED <<mode, workflowvars, clientvars>>

\* The loop of connect_all_servers from the entry after pos: the iterator
\* raises RuntimeError when server_configs changed its size, the next
\* client is created and connect awaited, or the loop is over.
connect_next(t, m, pos, size) ==
    IF Len(m.server_configs) # size
    THEN /\ manager' = m
         /\ tasks' = [tasks EXCEPT ![t] =
                Done("connect_all_servers", "", "RuntimeError")]
    ELSE IF pos < size
    THEN /\ manager' = [m EXCEPT !.clients = Append(@, NewClient)]
         /\ tasks' = [tasks EXCEPT ![t] =
                Suspended("connect_all_servers", "connect",
                          m.server_configs[pos + 1].key, Len(m.clients) + 1,
                          pos + 1, size)]
    ELSE /\ manager' = m
         /\ tasks' = [tasks EXCEPT ![t] =
                Done("connect_all_servers", "", "results")]

ConnectAllServers(t) ==
    /\ mode = "manager"
    /\ tasks[t].pc = "idle"
    /\ Len(manager.clients) + Len(manager.server_configs) <= MaxClients
    /\ connect_next(t, manager, 0, Len(manager.server_configs))
    /\ UNCHANGED <<mode, workflowvars, clientvars>>

\* `await client.connect()` is over, in connect_server or in the loop of
\* connect_all_servers.
ClientConnected(t) ==
    /\ mode = "manager"
    /\ tasks[t].pc = "connect"
    /\ \E outcome \in ConnectOutcomes :
          LET tk == tasks[t]
              m1 == [manager EXCEPT
                        !.clients[tk.client] = connect(@, outcome, ToolNames)]
              ok == outcome = "ok"
          IN  IF tk.op = "connect_server"
              THEN /\ manager' = IF ok
                                 THEN store_client(m1, tk.server_id, tk.client, TRUE)
                                 ELSE m1
                   /\ tasks' = [tasks EXCEPT ![t] =
                          Done("connect_server", tk.server_id,
                               IF ok THEN "True" ELSE "False")]
              ELSE connect_next(t,
                                IF ok
                                THEN store_client(m1, tk.server_id, tk.client, FALSE)
                                ELSE m1,
                                tk.pos, tk.size)
    /\ UNCHANGED <<mode, workflowvars, clientvars>>

\* disconnect_server up to `await client.disconnect()`, or to its end when
\* the disconnect does not give up control.
DisconnectServer(t, id) ==
    /\ mode = "manager"
    /\ tasks[t].pc = "idle"
    /\ IF id \notin Keys(manager.mcp_clients)
       THEN /\ manager' = manager
            /\ tasks' = [tasks EXCEPT ![t] = Done("disconnect_server", id, "True")]
       ELSE LET c == Get(manager.mcp_clients, id)
                obj == manager.clients[c]
            IN  IF Suspends(obj)
                THEN /\ manager' = manager
                     /\ tasks' = [tasks EXCEPT ![t] =
                            Suspended("disconnect_server", "disconnect", id, c, 0, 0)]
                ELSE LET m1 == IF obj.connected
                               THEN [manager EXCEPT !.clients[c] = disconnect(@, TRUE)]
                               ELSE manager
                         d == drop_client(m1, id)
                     IN  /\ manager' = d.m
                         /\ tasks' = [tasks EXCEPT ![t] =
                                Done("disconnect_server", id, d.returned)]
    /\ UNCHANGED <<mode, workflowvars, clientvars>>

\* The loop of disconnect_all_servers from the entry after pos: the
\* iterator raises RuntimeError when mcp_clients changed its size (the
\* exception leaves the operation before line 224), the next disconnect is
\* awaited, or the loop is over and the three collections are cleared.
disconnect_next(t, m, pos, size) ==
    IF Len(m.mcp_clients) # size
    THEN /\ manager' = m
         /\ tasks' = [tasks EXCEPT ![t] =
                Done("disconnect_all_servers", "", "RuntimeError")]
    ELSE LET sw == sweep(m, pos) IN
         IF sw.pos > Len(m.mcp_clients)
         THEN /\ manager' = clear_all(sw.m)
              /\ tasks' = [tasks EXCEPT ![t] =
                     Done("disconnect_all_servers", "", "None")]
         ELSE /\ manager' = sw.m
              /\ tasks' = [tasks EXCEPT ![t] =
                     Suspended("disconnect_all_servers", "disconnect",
                               m.mcp_clients[sw.pos].key,
                               m.mcp_clients[sw.pos].value, sw.pos, size)]

DisconnectAllServers(t) ==
    /\ mode = "manager"
    /\ tasks[t].pc = "idle"
    /\ disconnect_next(t, manager, 0, Len(manager.mcp_clients))
    /\ UNCHANGED <<mode, workflowvars, clientvars>>

\* `await client.disconnect()` is over, in disconnect_server or in the loop
\* of disconnect_all_servers.  closed: aclose returned; otherwise its
\* exception ends disconnect_server with False and is swallowed by the loop.
ClientDisconnected(t) ==
    /\ mode = "manager"
    /\ tasks[t].pc = "disconnect"
    /\ \E closed \in BOOLEAN :
          LET tk == tasks[t]
              m1 == [manager EXCEPT !.clients[tk.client] = disconnect(@, closed)]
          IN  IF tk.op = "disconnect_server"
              THEN LET d == IF closed THEN drop_client(m1, tk.server_id)
                            ELSE [m |-> m1, returned |-> "False"]
                   IN  /\ manager' = d.m
                       /\ tasks' = [tasks EXCEPT ![t] =
                              Done("disconnect_server", tk.server_id, d.returned)]
              ELSE disconnect_next(t, m1, tk.pos, tk.size)
    /\ UNCHANGED <<mode, workflowvars, clientvars>>

ExecuteToolOnServer(t, id) ==
    /\ mode = "manager"
    /\ tasks[t].pc = "idle"
    /\ \A c \in 1..Len(manager.clients) : manager.clients[c].opened < MaxSessions
    /\ \E tool \in ToolNames, reconnect \in ConnectOutcomes, outcome \in CallOutcomes :
          LET r == execute_tool_on_server(manager, id, tool, reconnect, outcome) IN
          /\ manager' = r.m
          /\ tasks' = [tasks EXCEPT ![t] =
                 Done("execute_tool_on_server", id, r.returned)]
    /\ UNCHANGED <<mode, workflowvars, clientvars>>

GetAllAvailableTools(t) ==
    /\ mode = "manager"
    /\ tasks[t].pc = "idle"
    /\ tasks' = [tasks EXCEPT ![t] =
           Done("get_all_available_tools", "", get_all_available_tools(manager))]
    /\ UNCHANGED <<mode, manager, workflowvars, clientvars>>

HealthCheckAllServers(t) ==
    /\ mode = "manager"
    /\ tasks[t].pc = "idle"
    /\ tasks' = [tasks EXCEPT ![t] =
           Done("health_check_all_servers", "", health_check_all_servers(manager))]
    /\ UNCHANGED <<mode, manager, workflowvars, clientvars>>

\* The caller takes the results of the operations it started.
Return ==
    /\ mode = "manager"
    /\ AtRest
    /\ \E t \in Tasks : tasks[t].pc = "done"
    /\ tasks' = [t \in Tasks |-> Idle]
    /\ UNCHANGED <<mode, manager, workflowvars, clientvars>>

\* The operations called one after the other, each awaited to its end.
ManagerNext ==
    \/ \E id \in ServerIds : AddServerConfig(id)
    \/ \E id \in ServerIds : RemoveServerConfig(id)
    \/ \E id \in ServerIds : ConnectServer(MainTask, id)
    \/ ConnectAllServers(MainTask)
    \/ ClientConnected(MainTask)
    \/ \E id \in ServerIds : DisconnectServer(MainTask, id)
    \/ DisconnectAllServers(MainTask)
    \/ ClientDisconnected(MainTask)
    \/ \E id \in ServerIds : ExecuteToolOnServer(MainTask, id)
    \/ GetAllAvailableTools(MainTask)
    \/ HealthCheckAllServers(MainTask)
    \/ Return

ManagerSpec == ManagerInit /\ [][ManagerNext]_vars

\* The lifecycle operations started together (asyncio.gather) and
\* interleaved at their awaits.
ConcurrentNext ==
    \/ \E id \in ServerIds : AddServerConfig(id)
    \/ \E id \in ServerIds : RemoveServerConfig(id)
    \/ \E t \in Tasks, id \in ServerIds : ConnectServer(t, id)
    \/ \E t \in Tasks : ConnectAllServers(t)
    \/ \E t \in Tasks : ClientConnected(t)
    \/ \E t \in Tasks, id \in ServerIds : DisconnectServer(t, id)
    \/ \E t \in Tasks : DisconnectAllServers(t)
    \/ \E t \in Tasks : ClientDisconnected(t)
    \/ Return

ConcurrentSpec == ManagerInit /\ [][ConcurrentNext]_vars

----------------------------------------------------------------------------
(* The workflows *)

Ready(n) == IF mode = "direct" THEN turn < MaxCalls ELSE node = n

\* tool: whether the node called a tool of self.tools, and how that ended.
Did(n, branch, handler, ok) ==
    last' = [node |-> n, branch |-> branch, handler |-> handler,
             tool |-> IF state'.ext.tools = state.ext.tools THEN "none"
                      ELSE IF ok THEN "ok" ELSE "failed"]

\* In direct mode the caller picks the next node function itself.  In a
\* graph an exception that leaves a node, or a router value that is no key
\* of the path map, stops the traversal.
Goto(n) ==
    LET target == IF state'.ext.escaped THEN "Raised" ELSE n IN
    /\ node' = IF mode = "direct" THEN "direct" ELSE target
    /\ turn' = IF mode = "direct" THEN turn + 1 ELSE turn
    /\ result' = IF mode = "agent" THEN run(state', target) ELSE result
    /\ routed' = routed
    /\ UNCHANGED <<mode, mcp_client>>
    /\ UNCHANGED mcpvars

Planning ==
    /\ Ready("planning")
    /\ \E resp \in PlannerResponses :
          /\ state' = planning_node(state, resp)
          /\ Did("planning", planning_outcome(extract_current_task(state), resp), "none", TRUE)
    /\ Goto("execution")

Execution ==
    /\ Ready("execution")
    /\ \E shape \in Readable(state), ok \in BOOLEAN :
          LET s == reveal(state, shape) IN
          /\ state' = execution_node(s, ok)
          /\ Did("execution", execution_outcome(s, ok).branch,
                 execution_outcome(s, ok).handler, ok)
    /\ IF mode = "agent"
       THEN Goto(follow(AgentPathMap, agent_route_after_execution(state')))
       ELSE \E target \in {studio_route_after_execution(state', f) :
                                f \in LatestFeatures(state')} :
               Goto(follow(StudioPathMap, target))

\* The stage that follows an action node.
ToNextStep(s) ==
    IF mode = "agent"
    THEN follow(AgentNextStepPathMap, agent_route_to_next_step(s))
    ELSE follow(StudioNextStepPathMap, studio_route_to_next_step(s))

Research ==
    /\ Ready("research")
    /\ \E ok \in BOOLEAN, resp \in ResearchResponses :
          /\ state' = research_node(state, ok, resp)
          /\ Did("research", IF ok THEN resp ELSE "none", "none", ok)
    /\ Goto(ToNextStep(state'))

Analysis ==
    /\ Ready("analysis")
    /\ \E ok \in BOOLEAN :
          /\ state' = analysis_node(state, ok)
          /\ Did("analysis", "returned", "none", ok)
    /\ Goto(ToNextStep(state'))

CodeGeneration ==
    /\ Ready("code_generation")
    /\ \E ok \in BOOLEAN :
          /\ state' = code_generation_node(state, ok)
          /\ Did("code_generation", "returned", "none", ok)
    /\ Goto(ToNextStep(state'))

Validation ==
    /\ Ready("validation")
    /\ \E ok \in BOOLEAN :
          /\ state' = validation_node(state, ok)
          /\ Did("validation", "returned", "none", ok)
    /\ Goto(ToNextStep(state'))

Summarization ==
    /\ Ready("summarization")
    /\ \E ok \in BOOLEAN :
          /\ state' = summarization_node(state, ok)
          /\ Did("summarization", "returned", "none", ok)
    /\ Goto(ToNextStep(state'))

Conversation ==
    /\ mode # "agent"
    /\ Ready("conversation")
    /\ \E resp \in ConversationResponses :
          /\ state' = conversational_node(state, resp)
          /\ Did("conversation", resp, "none", TRUE)
    /\ Goto("completion")

Completion ==
    /\ Ready("completion")
    /\ state' = completion_node(state)
    /\ Did("completion", "returned", "none", TRUE)
    /\ Goto("END")

\* test_enhanced_conversations.py, lines 83-109: the state a turn returns is
\* given the next user message and run again.
NewTurn ==
    /\ mode = "studio"
    /\ node = "END"
    /\ turn < MaxTurns
    /\ state' = [state EXCEPT !.messages = Append(@, "human"),
                              !.current_task = "task"]
    /\ Did("caller", "new_turn", "none", TRUE)
    /\ node' = "planning"
    /\ turn' = turn + 1
    /\ UNCHANGED <<mode, mcp_client, result, routed>>
    /\ UNCHANGED mcpvars

\* The signal a caller's TaskRequest.context can bring along: none, or one
\* naming an action stage.
CallerSignals == {"missing", "research"}

Init ==
    /\ mode \in {"agent", "studio", "direct"}
    /\ mcp_client \in BOOLEAN
    /\ mode = "studio" => mcp_client
    /\ node = IF mode = "direct" THEN "direct" ELSE "planning"
    /\ \E maxit \in 0..MaxIterations, signal \in CallerSignals :
          state = IF mode = "agent"
                  THEN [InitialState(<<"system">>, "task", <<"task">>, maxit)
                           EXCEPT !.context.next_action = signal]
                  ELSE IF mode = "studio"
                  THEN InitialState(<<"human">>, "", <<>>, maxit)
                  ELSE InitialState(<<>>, "task", <<"task">>, maxit)
    /\ last = [node |-> "START", branch |-> "none", handler |-> "none", tool |-> "none"]
    /\ turn = IF mode = "direct" THEN 0 ELSE 1
    /\ result = NoResult
    /\ routed = NoRoute
    /\ NoMcp

Next ==
    \/ Planning
    \/ Execution
    \/ Research
    \/ Analysis
    \/ CodeGeneration
    \/ Validation
    \/ Summarization
    \/ Conversation
    \/ Completion
    \/ NewTurn

Spec == Init /\ [][Next]_vars

----------------------------------------------------------------------------
(* The routers called on constructed states, as test_graph_structure does *)

\* The values a caller can leave in context.next_action.
Signals ==
    {"missing", "research", "analyze", "code_gen", "validate", "summarize",
     "execute", "complete", "conversation", "other"}

\* A conversation of n messages whose latest is of kind k.
Messages(n, k) ==
    [i \in 1..n |-> IF i = n THEN k ELSE IF i % 2 = 1 THEN "human" ELSE "ai_conv"]

ConstructedPlans == {NoPlan, ErrorPlan, FallbackPlan}

ConstructedStates ==
    {[InitialState(Messages(n, k), "task", <<"task">>, MaxIterations) EXCEPT
         !.context.next_action = sig,
         !.context.execution_plan = plan,
         !.context.current_step = cur] :
       n \in 0..MaxMessages, k \in {"human", "ai_conv", "dict"}, sig \in Signals,
       plan \in ConstructedPlans, cur \in {Missing, 0, 1}}

RouterInit ==
    /\ mode = "router"
    /\ mcp_client = FALSE
    /\ node = "router"
    /\ state \in ConstructedStates
    /\ last = [node |-> "START", branch |-> "none", handler |-> "none", tool |-> "none"]
    /\ turn = 0
    /\ result = NoResult
    /\ routed = NoRoute
    /\ NoMcp

Call(r, f, v) ==
    /\ mode = "router"
    /\ routed' = Routed(r, f, v)
    /\ UNCHANGED <<mode, mcp_client, node, state, last, turn, result>>
    /\ UNCHANGED mcpvars

AgentRouteAfterExecution ==
    Call("agent_route_after_execution", NoFeatures, agent_route_after_execution(state))

AgentRouteToNextStep ==
    Call("agent_route_to_next_step", NoFeatures, agent_route_to_next_step(state))

StudioRouteAfterExecution ==
    \E f \in LatestFeatures(state) :
        Call("studio_route_after_execution", f, studio_route_after_execution(state, f))

StudioRouteToNextStep ==
    Call("studio_route_to_next_step", NoFeatures, studio_route_to_next_step(state))

RouterNext ==
    \/ AgentRouteAfterExecution
    \/ AgentRouteToNextStep
    \/ StudioRouteAfterExecution
    \/ StudioRouteToNextStep

RouterSpec == RouterInit /\ [][RouterNext]_vars

----------------------------------------------------------------------------
(* Properties *)

Planned == state.context.execution_plan.set

Cursor == CurrentStep(state.context)

PlanLen == Len(Steps(state.context))

Accumulators(s) ==
    <<s.research_results, s.analysis_results, s.context.generated_code,
      s.context.validation_results, s.tools_used>>

\* C1: in every reachable state the step cursor lies between 0 and the
\* number of steps of the current plan.
C1_CursorWithinPlan == 0 <= Cursor /\ Cursor <= PlanLen

\* C1 witness: the cursor has been moved to the end of a plan of two steps.
C1_Witness ==
    /\ last.node = "execution" /\ last.branch = "advanced"
    /\ PlanLen = 2 /\ Cursor = 2

\* C2 as claimed: after N invocations of execution_node on a plan of L steps
\* (each an object) the cursor is min(N, L), whatever the handlers did.
C2_CursorIsMinOfCallsAndLength ==
    (Planned /\ \A i \in 1..PlanLen : Steps(state.context)[i].is_dict \/ Steps(state.context)[i] = Unread)
    => Cursor = Min(state.ext.exec, PlanLen)

\* C3 as claimed: a run that has stopped has entered the completion stage.
C3_RunEntersCompletion ==
    (mode # "direct" /\ node \in {"END", "KeyError"}) => last.node = "completion"

\* C4 as claimed: when the completion stage is entered in a run that planned
\* n >= 1 steps and in which nothing raised, steps 1..n have been
\* dispatched in order, each once.
C4_AllStepsDispatchedBeforeCompletion ==
    (/\ mode # "direct" /\ turn = 1 /\ node = "completion"
     /\ Planned /\ PlanLen >= 1 /\ ~state.ext.raised)
    => state.ext.dispatched = [i \in 1..PlanLen |-> i]

\* C5 as claimed: a run that has reached END has a non-empty final_answer.
C5_FinalAnswerAtEnd ==
    (mode # "direct" /\ node = "END") => ~Falsy(state.final_answer)

\* C6 as claimed: a planning response that is not a structured plan (not
\* JSON, or JSON whose steps cannot be taken) yields the 4-step fallback plan.
C6_MalformedResponseGivesFallback ==
    [][(last'.node = "planning" /\ last'.branch \in {"fallback", "bad_shape"})
        => state'.context.execution_plan = FallbackPlan]_vars

\* C7: when the model invocation in planning_node raises, the plan is the
\* single step "complete", the cursor is 0 and error_log has one more entry.
C7_PlannerRaiseGivesErrorPlan ==
    [][(last'.node = "planning" /\ last'.branch = "llm_raised")
        => /\ state'.context.execution_plan = ErrorPlan
           /\ state'.context.current_step = 0
           /\ Len(state'.error_log) = Len(state.error_log) + 1
           /\ IsPrefix(state.error_log, state'.error_log)]_vars

\* C7 witness: the model call raised in a turn that started with a plan
\* whose cursor had moved.
C7_Witness ==
    /\ last.node = "planning" /\ last.branch = "llm_raised"
    /\ state.iteration_count >= 1
    /\ state.context.execution_plan = ErrorPlan

\* C8: with iteration_count >= max_iterations planning_node sets the fixed
\* final answer, calls no model and leaves the plan, the cursor,
\* iteration_count, error_log and messages as they were.
C8_ShortcutFrame ==
    [][(last'.node = "planning" /\ last'.branch = "shortcut")
        => /\ state'.final_answer = MaxIterationsAnswer
           /\ state'.ext.llm = state.ext.llm
           /\ state'.context.execution_plan = state.context.execution_plan
           /\ state'.context.current_step = state.context.current_step
           /\ state'.iteration_count = state.iteration_count
           /\ state'.error_log = state.error_log
           /\ state'.messages = state.messages]_vars

\* C8 witness: the shortcut was taken on a state holding a plan whose cursor
\* had moved.
C8_Witness ==
    /\ last.node = "planning" /\ last.branch = "shortcut"
    /\ Planned /\ Cursor >= 1
    /\ state.final_answer = MaxIterationsAnswer

\* C9 as claimed: every invocation of planning_node that installs a plan
\* raises iteration_count by exactly 1, and no other stage changes it.
C9_IterationCountedPerPlan ==
    [][/\ (last'.node = "planning" /\ last'.branch # "shortcut")
            => state'.iteration_count = state.iteration_count + 1
       /\ last'.node # "planning"
            => state'.iteration_count = state.iteration_count]_vars

\* C10 as claimed: a dispatched research, analysis, validation or code
\* generation step whose tool returns success = false appends exactly one
\* entry to error_log and leaves the accumulators unchanged.
C10_ToolFailureLogged ==
    [][(/\ last'.node = "execution" /\ last'.tool = "failed"
        /\ last'.handler \in {"research", "analysis", "validation", "code_generation"})
        => /\ Len(state'.error_log) = Len(state.error_log) + 1
           /\ Accumulators(state') = Accumulators(state)]_vars

----------------------------------------------------------------------------
(* Properties of the routers and of AgentGraph.run *)

\* The nodes added to the two graphs.
AgentStages ==
    {"planning", "execution", "research", "analysis", "code_generation",
     "validation", "summarization", "completion"}

StudioStages == AgentStages \cup {"conversation"}

\* C11 as claimed: route_after_execution returns the stage the fixed table
\* gives for context.next_action, and completion for a missing or unmapped
\* signal, in AgentGraph and, when the keyword heuristic does not fire, in
\* the studio graph.
C11_RouterFollowsFixedTable ==
    (\/ routed.router = "agent_route_after_execution"
     \/ /\ routed.router = "studio_route_after_execution"
        /\ ~HeuristicFires(state, routed.f))
    => routed.value = Lookup(AgentActionMapping, state.context.next_action, "completion")

\* The stage a router's value stands for: _route_to_next_step of AgentGraph
\* names its two targets by the keys of its path map.
StageOf(r) ==
    IF r.router = "agent_route_to_next_step"
    THEN follow(AgentNextStepPathMap, r.value)
    ELSE r.value

C14_RunNeverRaises ==
    mode = "agent"
    => /\ result.outcome # "raised"
       /\ node \in {"KeyError", "Raised"}
            => /\ result.outcome = "returned" /\ ~result.success
               /\ ~Falsy(result.final_answer)
               /\ result.errors = <<node>>
       /\ node = "END" => result.outcome = "returned" /\ result.success
       /\ node \notin {"KeyError", "Raised", "END"} => result = NoResult

\* C14 witness: the traversal raised KeyError and run returned the failure
\* record.
C14_Witness ==
    /\ mode = "agent" /\ node = "KeyError"
    /\ result.outcome = "returned" /\ ~result.success

----------------------------------------------------------------------------
(* Properties of the nodes' error handling and of the dispatch *)

\* C15: no node function lets an exception out: whatever the model
\* responds, the tools return and the plan holds, each call returns a state
\* and no traversal is stopped by an exception from a node.
C15_NodesReturnState == ~state.ext.escaped /\ node # "Raised"

\* C15 witness: a step handler raised inside execution_node, which logged
\* the exception and returned the state.
C15_Witness ==
    /\ last.node = "execution" /\ last.branch = "raised" /\ last.handler # "none"
    /\ ~state.ext.escaped
    /\ state.error_log # <<>>

\* C16 as claimed: no handler dispatched by execution_node raises.
C16_HandlersNeverRaise ==
    [][(last'.node = "execution" /\ last'.handler # "none")
        => last'.branch # "raised"]_vars

\* C17 as claimed: in a run, after a step whose handler failed (its tool
\* returned a failure, or it raised) while steps remain, execution comes
\* next, so that the remaining steps are dispatched before completion.
C17_RunContinuesAfterFailedStep ==
    (/\ mode # "direct"
     /\ last.node = "execution" /\ last.handler # "none"
     /\ last.tool = "failed" \/ last.branch = "raised"
     /\ Len(state.ext.dispatched) < PlanLen)
    => node = "execution"

\* C18 as claimed: when execution_node catches an exception it appends one
\* entry to error_log and sets next_action to complete, and the run goes on
\* to completion (in the studio graph possibly by way of the conversation).
C18_ExecutionErrorLeadsToCompletion ==
    [][(last'.node = "execution" /\ last'.branch = "raised")
        => /\ Len(state'.error_log) = Len(state.error_log) + 1
           /\ IsPrefix(state.error_log, state'.error_log)
           /\ state'.context.next_action = "complete"
           /\ mode = "agent" => node' = "completion"
           /\ mode = "studio" => node' \in {"completion", "conversation"}]_vars

\* C19: entered with the cursor at or past the end of the plan (or with no
\* plan), execution_node sets next_action to complete and changes nothing
\* else; no handler runs and no tool is called.
C19_NothingLeftFrame ==
    [][(last'.node = "execution" /\ last'.branch = "done")
        => /\ [state' EXCEPT !.ext.exec = state.ext.exec]
                = [state EXCEPT !.context.next_action = "complete"]
           /\ last'.handler = "none" /\ last'.tool = "none"]_vars

\* C19 witness: execution_node was called on a plan whose steps had all
\* been run.
C19_Witness ==
    /\ last.node = "execution" /\ last.branch = "done"
    /\ Planned /\ PlanLen >= 1 /\ Cursor = PlanLen
    /\ state.context.next_action = "complete"

\* C20: the handler execution_node dispatches is fixed by the step's action
\* (and, for execute, by "mcp_tools" in tools_needed); every other action
\* gets the generic handler, which calls no tool or model and appends one
\* message after the one execution_node appends.
C20_HandlerChosenByAction ==
    [][(last'.node = "execution" /\ last'.handler # "none")
        => LET step == Steps(state'.context)[Last(state'.ext.dispatched)] IN
           /\ last'.handler =
                CASE step.action = "research" -> "research"
                  [] step.action = "analyze" -> "analysis"
                  [] step.action = "execute" /\ step.mcp -> "mcp"
                  [] step.action = "validate" -> "validation"
                  [] step.action = "code_gen" -> "code_generation"
                  [] OTHER -> "generic"
           /\ last'.handler = "generic"
                => /\ state'.ext.tools = state.ext.tools
                   /\ state'.ext.llm = state.ext.llm
                   /\ state'.messages = state.messages \o <<"ai_exec", "ai_generic">>
                   /\ Accumulators(state') = Accumulators(state)
                   /\ state'.context.mcp_results = state.context.mcp_results
                   /\ state'.error_log = state.error_log]_vars

\* C20 witness: a step with action execute and no "mcp_tools" went to the
\* generic handler.
C20_Witness ==
    /\ last.node = "execution" /\ last.handler = "generic"
    /\ state.ext.dispatched # <<>>
    /\ Steps(state.context)[Last(state.ext.dispatched)] = Step("execute", FALSE, TRUE, TRUE)
    /\ Last(state.messages) = "ai_generic"

----------------------------------------------------------------------------
(* Properties of the stage sequence and of the routers' conditions *)

\* C21 as claimed: in a run, the execution stage that follows the
\* max-iterations shortcut of planning_node dispatches no step, runs no
\* handler and calls no tool, also when a plan and a cursor are left over.
C21_NothingDispatchedAfterShortcut ==
    [][(/\ mode # "direct"
        /\ last.node = "planning" /\ last.branch = "shortcut"
        /\ last'.node = "execution")
        => /\ last'.handler = "none"
           /\ state'.ext.dispatched = state.ext.dispatched
           /\ state'.ext.tools = state.ext.tools]_vars

\* C22 as claimed: in a run planning is followed by execution, execution by
\* execution, an action stage, the conversation or completion, an action
\* stage by execution or completion, the conversation by completion, and
\* completion by END.
C22_StageSequence ==
    [][(mode # "direct" /\ node # "END")
        => /\ node = "planning" => node' = "execution"
           /\ node = "execution" => node' \in StudioStages \ {"planning"}
           /\ node \in {"research", "analysis", "code_generation", "validation",
                        "summarization"} => node' \in {"execution", "completion"}
           /\ node = "conversation" => node' = "completion"
           /\ node = "completion" => node' = "END"]_vars

\* C23: route_to_next_step gives the execution target when the cursor (0
\* when missing) is below the number of steps (0 with no plan) and the
\* completion target otherwise.
C23_NextStepByCursor ==
    routed.router \in {"agent_route_to_next_step", "studio_route_to_next_step"}
    => LET cursor == IF state.context.current_step = Missing THEN 0
                     ELSE state.context.current_step
           length == IF state.context.execution_plan.set
                     THEN Len(state.context.execution_plan.steps) ELSE 0
       IN  StageOf(routed) = IF cursor < length THEN "execution" ELSE "completion"

\* C23 witness: the AgentGraph router was called on a state with a plan and
\* no cursor and chose execution.
C23_Witness ==
    /\ routed.router = "agent_route_to_next_step"
    /\ state.context.current_step = Missing
    /\ state.context.execution_plan = ErrorPlan
    /\ routed.value = "execute"

\* C24 as claimed: for a latest message object, the studio router's bias to
\* the conversation applies when more than 2 messages precede the latest and
\* it holds no complex-task keyword; with 2 or fewer messages before it and
\* no conversational trigger the signal table decides.
C24_FollowUpBias ==
    (/\ routed.router = "studio_route_after_execution"
     /\ state.messages # <<>> /\ HasContent(Last(state.messages)))
    => LET prior == Len(state.messages) - 1 IN
       /\ (prior > 2 /\ ~routed.f.complex) => routed.value = "conversation"
       /\ (prior <= 2 /\ ~routed.f.trigger)
            => routed.value =
                 Lookup(StudioActionMapping,
                        IF state.context.next_action = "missing" THEN "complete"
                        ELSE state.context.next_action,
                        "conversation")

\* C25: with conversation_ready set, completion_node returns the state as
\* it was entered, every field included.
C25_CompletionKeepsConversationState ==
    [][(last'.node = "completion" /\ state.context.conversation_ready)
        => state' = state]_vars

\* C25 witness: completion_node ran on a conversational turn whose answer
\* was empty and left it empty.
C25_Witness ==
    /\ last.node = "completion"
    /\ state.context.conversation_ready
    /\ state.final_answer = ""

----------------------------------------------------------------------------
(* Properties of completion_node and of the accumulating fields *)

\* C26: completion_node changes final_answer only when it is unset on entry
\* (and the turn is not a conversational one); an answer already set is
\* kept, and no model or tool is called.
C26_CompletionKeepsAnswer ==
    [][last'.node = "completion"
        => /\ ~Falsy(state.final_answer) => state'.final_answer = state.final_answer
           /\ state'.final_answer # state.final_answer
                => /\ Falsy(state.final_answer)
                   /\ ~state.context.conversation_ready
                   /\ ~Falsy(state'.final_answer)
           /\ state'.ext.llm = state.ext.llm
           /\ state'.ext.tools = state.ext.tools]_vars

\* C26 witness: completion_node ran on the answer the max-iterations
\* shortcut had set, in a turn that was no conversation, and kept it.
C26_Witness ==
    /\ last.node = "completion"
    /\ ~state.context.conversation_ready
    /\ state.final_answer = MaxIterationsAnswer

\* C27 as claimed: every invocation of completion_node leaves the message
\* list exactly one entry longer.
C27_CompletionAppendsMessage ==
    [][last'.node = "completion"
        => Len(state'.messages) = Len(state.messages) + 1]_vars

\* C28 as claimed: a final_answer that is non-empty is never made unset or
\* empty by a stage.
C28_AnswerNeverCleared ==
    [][~Falsy(state.final_answer) => ~Falsy(state'.final_answer)]_vars

\* C29: every stage leaves the previous messages, task_history, tools_used,
\* error_log and research_results as a prefix of the new ones.
C29_AppendOnly ==
    [][/\ IsPrefix(state.messages, state'.messages)
       /\ IsPrefix(state.task_history, state'.task_history)
       /\ IsPrefix(state.tools_used, state'.tools_used)
       /\ IsPrefix(state.error_log, state'.error_log)
       /\ IsPrefix(state.research_results, state'.research_results)]_vars

\* C29 witness: two research results, a logged failure, a used tool and a
\* message have accumulated.
C29_Witness ==
    /\ Len(state.research_results) = 2
    /\ state.error_log # <<>>
    /\ state.tools_used # <<>>
    /\ state.messages # <<>>
    /\ state.task_history # <<>>

\* C30 as claimed: no stage removes or replaces an entry of
\* analysis_results, of the generated code or of the validation results.
C30_AccumulatorsKeepEntries ==
    [][/\ \A e \in state.analysis_results : e \in state'.analysis_results
       /\ IsPrefix(state.context.generated_code.items,
                   state'.context.generated_code.items)
       /\ IsPrefix(state.context.validation_results.items,
                   state'.context.validation_results.items)]_vars

----------------------------------------------------------------------------
\* C31: an analyze step dispatched while research_results is empty makes no
\* call on the tools or the model and leaves analysis_results, tools_used
\* and error_log as they were; execution_node still advances the cursor by 1.
C31_AnalysisWithoutResearchIsNoOp ==
    [][(/\ last'.node = "execution" /\ last'.handler = "analysis"
        /\ state.research_results = <<>>)
        => /\ state'.ext.tools = state.ext.tools
           /\ state'.ext.llm = state.ext.llm
           /\ state'.analysis_results = state.analysis_results
           /\ state'.tools_used = state.tools_used
           /\ state'.error_log = state.error_log
           /\ last'.branch = "advanced"
           /\ CurrentStep(state'.context) = CurrentStep(state.context) + 1]_vars

\* C31 witness: an analyze step was dispatched with no research result and
\* the cursor moved past it.
C31_Witness ==
    /\ last.node = "execution" /\ last.handler = "analysis"
    /\ last.branch = "advanced" /\ last.tool = "none"
    /\ state.research_results = <<>>
    /\ state.analysis_results = {}
    /\ Cursor = Last(state.ext.dispatched)

\* C32 as claimed: for a plan of one research step whose search succeeds,
\* one dispatch calls the search once, adds one entry to research_results
\* and "web_search" to tools_used, and the run goes on to completion (in the
\* studio graph possibly by way of the conversation).
C32_SingleResearchStep ==
    [][(/\ last'.node = "execution" /\ last'.handler = "research"
        /\ last'.tool = "ok"
        /\ Len(Steps(state'.context)) = 1
        /\ Steps(state'.context)[1].has_step)
        => /\ state'.ext.tools = state.ext.tools + 1
           /\ Len(state'.research_results) = Len(state.research_results) + 1
           /\ state'.tools_used = Append(state.tools_used, "web_search")
           /\ state'.context.next_action = "complete"
           /\ mode = "agent" => node' = "completion"
           /\ mode = "studio" => node' \in {"completion", "conversation"}]_vars

\* C33: without a remote-capability client a step with action execute and
\* "mcp_tools" adds exactly one entry to error_log; no mcp_results record,
\* no tools_used entry, nothing else of the state changes in the handler,
\* and execution_node still advances the cursor by 1.
C33_McpStepWithoutClient ==
    [][(/\ last'.node = "execution" /\ last'.handler = "mcp"
        /\ ~mcp_client)
        => /\ state'.error_log = Append(state.error_log, "MCP client not available")
           /\ state'.context.mcp_results = state.context.mcp_results
           /\ Accumulators(state') = Accumulators(state)
           /\ state'.ext.tools = state.ext.tools
           /\ state'.ext.llm = state.ext.llm
           /\ state'.final_answer = state.final_answer
           /\ state'.messages = Append(state.messages, "ai_exec")
           /\ last'.branch = "advanced"
           /\ CurrentStep(state'.context) = CurrentStep(state.context) + 1]_vars

\* C33 witness: a step for the remote capability was dispatched with no
\* client configured and the cursor moved past it.
C33_Witness ==
    /\ ~mcp_client
    /\ last.node = "execution" /\ last.handler = "mcp"
    /\ last.branch = "advanced"
    /\ state.error_log = <<"MCP client not available">>
    /\ state.context.mcp_results = <<>>
    /\ Cursor = 1

\* C35 as claimed: every value _route_after_execution returns is a key of
\* the path map of the execution node's conditional edges.
C35_RouterValueIsPathMapKey ==
    routed.router = "agent_route_after_execution"
    => routed.value \in DOMAIN AgentPathMap

\* The stages that act on one kind of step.
ActionStages ==
    {"research", "analysis", "code_generation", "validation", "summarization"}

\* C36: whatever the signal was, after execution_node it is execute or
\* complete; no run of the AgentGraph graph or of the studio graph enters
\* research, analysis, code_generation, validation or summarization.
C36_SignalIsExecuteOrComplete ==
    [][/\ last'.node = "execution"
            => state'.context.next_action \in {"execute", "complete"}
       /\ mode \in {"agent", "studio"} => node' \notin ActionStages]_vars

\* C36 witness: in a later turn of the studio graph execution_node replaced
\* the signal of the turn before by execute, and the run went on to the
\* conversation.
C36_Witness ==
    /\ mode = "studio" /\ turn = 2
    /\ last.node = "execution" /\ last.branch = "advanced"
    /\ state.context.next_action = "execute"
    /\ node = "conversation"

\* C37: iteration_count never exceeds max_iterations, in a run and across
\* the turns that feed the returned state back.
C37_IterationCountBounded ==
    state.iteration_count <= state.max_iterations

\* C37 witness: in a later turn planning_node found the count at the
\* maximum and planned no more.
C37_Witness ==
    /\ mode = "studio" /\ turn = 2
    /\ last.node = "planning" /\ last.branch = "shortcut"
    /\ state.max_iterations >= 1
    /\ state.iteration_count = state.max_iterations

----------------------------------------------------------------------------
(* Properties of the remote-capability clients *)

\* C40 as claimed: after any sequence of connect and disconnect calls a
\* connected client has a session, so call_tool on a connected client
\* never runs without one.
C40_ConnectedHasSession ==
    /\ client.connected => client.session # NoSession
    /\ reply.value # "no_session"

\* connected_servers lists every id once, and it, mcp_clients and
\* mcp_adapters name the same servers.
Consistent(m) ==
    /\ \A i, j \in 1..Len(m.connected_servers) :
          m.connected_servers[i] = m.connected_servers[j] => i = j
    /\ Range(m.connected_servers) = Keys(m.mcp_clients)
    /\ Keys(m.mcp_clients) = Keys(m.mcp_adapters)

\* C38 as claimed: called one after the other, connect_server,
\* connect_all_servers, disconnect_server and disconnect_all_servers keep
\* connected_servers free of duplicates and its ids equal to the keys of
\* mcp_clients and to the keys of mcp_adapters.
C38_ConnectedServersMatchClients ==
    [][(tasks' # tasks /\ Consistent(manager)) => Consistent(manager')]_vars

\* C39 as claimed: whatever configuration and lifecycle calls were made,
\* every server with a client in mcp_clients has a configuration, and no
\* operation of the manager fails for a missing configuration.
C39_ClientsHaveConfigs ==
    /\ Keys(manager.mcp_clients) \subseteq Keys(manager.server_configs)
    /\ \A t \in Tasks : tasks[t].returned \notin {"KeyError", "missing_config"}

\* The coroutine is suspended between its first look at the three
\* collections and its last write to them: in disconnect_server after
\* reading mcp_clients[server_id], in the loop of disconnect_all_servers,
\* and in the loop of connect_all_servers after its first iteration.
InUpdate(tk) ==
    \/ tk.pc = "disconnect"
    \/ tk.op = "connect_all_servers" /\ tk.pc = "connect" /\ tk.pos > 1

Collections(m) == <<m.mcp_clients, m.mcp_adapters, m.connected_servers>>

\* The step is one of coroutine t that reads or writes the collections:
\* it changes them, it starts a disconnect operation (which looks
\* server_id up in mcp_clients, or starts iterating it), or it goes on
\* with the loop of disconnect_all_servers.
Touches(t) ==
    /\ tasks'[t] # tasks[t]
    /\ tasks'[t].pc # "idle"
    /\ \/ Collections(manager') # Collections(manager)
       \/ /\ tasks[t].pc = "idle"
          /\ tasks'[t].op \in {"disconnect_server", "disconnect_all_servers"}
       \/ /\ tasks[t].pc = "disconnect"
          /\ tasks[t].op = "disconnect_all_servers"

\* C34 as claimed: of lifecycle operations started together, none reads or
\* writes mcp_clients, mcp_adapters or connected_servers while another is
\* suspended at an await inside its own update.
C34_LifecycleOperationsSerialized ==
    [][\A t, u \in Tasks : (t # u /\ Touches(t)) => ~InUpdate(tasks[u])]_vars

====
